---- MODULE Spec2Model ----
\* Model of clock_solver.py: the angle calculator calculate_clock_angle and
\* the fixture runner run_tests_from_file.
\*
\* Numbers.  The calculator works in floating-point degrees.  Every quantity
\* it forms before rounding is an exact multiple of 1/120 degree
\* (0.5/60 = 1/120, 0.1 = 12/120, 0.5 = 60/120, 6 = 720/120, 30 = 3600/120),
\* so the model carries hand positions as integers counting 1/120 degree.
\* round(x, 4) yields a multiple of 1/10000 degree, so returned angles and
\* expected angles are integers counting 1/10000 degree.
EXTENDS Integers, Sequences, FiniteSets, TLC

\* ------------------------------------------------------------------
\* Bounds of the model
\* ------------------------------------------------------------------
\* How far beyond the valid ranges the integer arguments of a direct call go.
Margin == 1
\* Largest number of records in a fixture file.
MaxCases == 2

\* ------------------------------------------------------------------
\* Values
\* ------------------------------------------------------------------
\* Python's None, as returned by dict.get for a missing key.  Encoded as an
\* integer outside every argument range so that it can sit in the same
\* fields as integers; every comparison in the code that None would make
\* raise TypeError is guarded explicitly below.
None == 0 - 1000
\* A key that the JSON object does not contain.
Absent == 0 - 2000

UnitsPerDegree == 120
FullCircle == 360 * UnitsPerDegree
Scale4 == 10000
\* 0.01 degree in units of 1/10000 degree.
Tolerance == 100

Abs(x) == IF x < 0 THEN 0 - x ELSE x
Min(a, b) == IF a <= b THEN a ELSE b

\* ------------------------------------------------------------------
\* calculate_clock_angle
\* ------------------------------------------------------------------
NoAngle == 0 - 1

Ok(angle) == [status |-> "ok", angle |-> angle, field |-> "", value |-> 0]
ValueError(field, value) ==
    [status |-> "ValueError", angle |-> NoAngle, field |-> field, value |-> value]
TypeError == [status |-> "TypeError", angle |-> NoAngle, field |-> "", value |-> 0]
NoRet == [status |-> "none", angle |-> NoAngle, field |-> "", value |-> 0]

\* 0 <= hours <= 23 with a wrong upper limit
ValidHoursOffByOne(hours) == 0 <= hours /\ hours <= 24
ValidHours(hours) == 0 <= hours /\ hours <= 23
ValidMinutes(minutes) == 0 <= minutes /\ minutes <= 59
ValidSeconds(seconds) == 0 <= seconds /\ seconds <= 59

\* the 12-hour fold left out
adjusted_hours_unfolded(hours) == hours
adjusted_hours(hours) == hours % 12

\* the seconds term of the hour hand left out
hour_angle_no_seconds(hours, minutes, seconds) ==
    (adjusted_hours(hours) * 30 * UnitsPerDegree) + (minutes * 60)
\* (adjusted_hours * 30) + (minutes * 0.5) + (seconds * (0.5 / 60)), in 1/120 degree
hour_angle(hours, minutes, seconds) ==
    (adjusted_hours(hours) * 30 * UnitsPerDegree) + (minutes * 60) + seconds

\* (minutes * 6) + (seconds * 0.1), in 1/120 degree
minute_angle(minutes, seconds) == (minutes * 6 * UnitsPerDegree) + (seconds * 12)

diff(hours, minutes, seconds) ==
    Abs(hour_angle(hours, minutes, seconds) - minute_angle(minutes, seconds))

\* the raw difference returned instead of the smaller arc
final_angle_raw(d) == d
final_angle(d) == Min(d, FullCircle - d)

\* p/q rounded to the nearest integer, ties to the even one (p >= 0, q > 0)
RoundHalfEven(p, q) ==
    LET k == p \div q
        r == p - (k * q)
    IN  IF (2 * r > q) \/ (2 * r = q /\ k % 2 = 1) THEN k + 1 ELSE k

\* round(x, 4) for x in 1/120 degree; the result counts 1/10000 degree
round4(x) == RoundHalfEven(x * Scale4, UnitsPerDegree)

calculate_clock_angle(hours, minutes, seconds) ==
    IF hours = None THEN TypeError
    ELSE IF ~ValidHours(hours) THEN ValueError("Hours", hours)
    ELSE IF minutes = None THEN TypeError
    ELSE IF ~ValidMinutes(minutes) THEN ValueError("Minutes", minutes)
    ELSE IF seconds = None THEN TypeError
    ELSE IF ~ValidSeconds(seconds) THEN ValueError("Seconds", seconds)
    ELSE Ok(round4(final_angle(diff(hours, minutes, seconds))))

\* ------------------------------------------------------------------
\* State
\* ------------------------------------------------------------------
VARIABLES
    args,        \* arguments of the current or most recent calculator call
    ret,         \* what that call produced: an angle or an exception
    calls,       \* number of calculator calls made so far
    filepath,    \* the argument of run_tests_from_file
    file,        \* what the file system holds at filepath
    pc,          \* position of the runner
    fileOpen,    \* the file handle f is open
    opens,       \* number of times open() succeeded
    test_cases,  \* the parsed list of records
    i,           \* number of records the for loop has consumed
    passed,      \* the running count of PASS cases
    out,         \* everything printed or logged so far, in order
    exc          \* the exception that left run_tests_from_file, if any

vars == <<args, ret, calls, filepath, file, pc, fileOpen, opens, test_cases,
          i, passed, out, exc>>

calcVars == <<args, ret, calls>>

\* ------------------------------------------------------------------
\* Inputs
\* ------------------------------------------------------------------
NoArgs == [hours |-> None, minutes |-> None, seconds |-> None]

\* integer arguments of a direct call: the valid range and Margin beyond it
HoursDom == (0 - Margin)..(23 + Margin)
MinutesDom == (0 - Margin)..(59 + Margin)
SecondsDom == (0 - Margin)..(59 + Margin)

\* records of a fixture file; a key may be missing from the object
Paths == {"clock_test_data.json", "other.json"}
CaseHours == {Absent, 3, 24}
CaseMinutes == {Absent, 0}
CaseSeconds == {Absent, 60}
\* 90.0, 90.0099 and 90.01 degrees; for these values the floating-point
\* abs(actual - expected) < 0.01 agrees with the exact comparison
CaseExpected == {Absent, 900000, 900099, 900100}
Cases == [hours : CaseHours, minutes : CaseMinutes, seconds : CaseSeconds,
          expected_angle : CaseExpected]

CaseLists == UNION {[1..n -> Cases] : n \in 0..MaxCases}

\* a file that is missing, holds text that is not JSON, or holds a JSON
\* array of objects
Files ==
    {[exists |-> FALSE, kind |-> "none", cases |-> <<>>]}
    \cup {[exists |-> TRUE, kind |-> "malformed", cases |-> <<>>]}
    \cup {[exists |-> TRUE, kind |-> "array", cases |-> cs] : cs \in CaseLists}

\* ------------------------------------------------------------------
\* Output
\* ------------------------------------------------------------------
NoTime == <<None, None, None>>
Ev(chan, kind) ==
    [chan |-> chan, kind |-> kind, path |-> "", time |-> NoTime,
     expected |-> NoAngle, actual |-> NoAngle, status |-> "",
     field |-> "", value |-> 0, passed |-> 0, total |-> 0]

LogNotFound(path) == [Ev("ERROR", "not_found") EXCEPT !.path = path]
LogJsonError(path) == [Ev("ERROR", "json_error") EXCEPT !.path = path]
Header == Ev("stdout", "header")
Separator == Ev("stdout", "separator")
Row(h, m, s, expected, actual, status) ==
    [Ev("stdout", "row") EXCEPT !.time = <<h, m, s>>, !.expected = expected,
                                !.actual = actual, !.status = status]
ErrorLine(h, m, s, e) ==
    [Ev("stdout", "error_line") EXCEPT !.time = <<h, m, s>>,
                                       !.field = e.field, !.value = e.value]
LogSummary(p, n) == [Ev("INFO", "summary") EXCEPT !.passed = p, !.total = n]

\* ------------------------------------------------------------------
\* run_tests_from_file
\* ------------------------------------------------------------------
\* case.get(key, default)
Get(case, key, default) == IF case[key] = Absent THEN default ELSE case[key]

\* the comparison made non-strict
is_correct_nonstrict(actual, expected) == Abs(actual - expected) <= Tolerance
\* abs(actual - expected) < 0.01
is_correct(actual, expected) == Abs(actual - expected) < Tolerance

Init ==
    /\ args = NoArgs
    /\ ret = NoRet
    /\ calls = 0
    /\ filepath \in Paths
    /\ file \in Files
    /\ pc = "check_exists"
    /\ fileOpen = FALSE
    /\ opens = 0
    /\ test_cases = <<>>
    /\ i = 0
    /\ passed = 0
    /\ out = <<>>
    /\ exc = "none"

\* the missing file is logged but the function goes on
CheckExistsNoReturn ==
    /\ pc = "check_exists"
    /\ out' = IF file.exists THEN out ELSE Append(out, LogNotFound(filepath))
    /\ pc' = "open"
    /\ UNCHANGED <<calcVars, filepath, file, fileOpen, opens, test_cases, i, passed, exc>>

\* if not os.path.exists(filepath): log the error and return
CheckExists ==
    /\ pc = "check_exists"
    /\ IF file.exists
         THEN /\ pc' = "open"
              /\ out' = out
         ELSE /\ pc' = "returned"
              /\ out' = Append(out, LogNotFound(filepath))
    /\ UNCHANGED <<calcVars, filepath, file, fileOpen, opens, test_cases, i, passed, exc>>

\* with open(filepath, 'r', encoding='utf-8') as f
OpenFile ==
    /\ pc = "open"
    /\ IF file.exists
         THEN /\ pc' = "load"
              /\ fileOpen' = TRUE
              /\ opens' = opens + 1
              /\ exc' = exc
         ELSE /\ pc' = "raised"
              /\ exc' = "FileNotFoundError"
              /\ UNCHANGED <<fileOpen, opens>>
    /\ UNCHANGED <<calcVars, filepath, file, test_cases, i, passed, out>>

\* a parse failure is logged but the function goes on with an empty list
LoadJsonNoReturn ==
    /\ pc = "load"
    /\ fileOpen' = FALSE
    /\ IF file.kind = "array"
         THEN /\ test_cases' = file.cases
              /\ pc' = "header"
              /\ out' = out
         ELSE /\ out' = Append(out, LogJsonError(filepath))
              /\ pc' = "header"
              /\ test_cases' = test_cases
    /\ UNCHANGED <<calcVars, filepath, file, opens, i, passed, exc>>

\* test_cases = json.load(f); leaving the with block closes f on every path;
\* json.JSONDecodeError is logged and the function returns
LoadJson ==
    /\ pc = "load"
    /\ fileOpen' = FALSE
    /\ IF file.kind = "array"
         THEN /\ test_cases' = file.cases
              /\ pc' = "header"
              /\ out' = out
         ELSE /\ out' = Append(out, LogJsonError(filepath))
              /\ pc' = "returned"
              /\ test_cases' = test_cases
    /\ UNCHANGED <<calcVars, filepath, file, opens, i, passed, exc>>

\* passed = 0; print the header row and the separator
PrintHeader ==
    /\ pc = "header"
    /\ passed' = 0
    /\ out' = out \o <<Header, Separator>>
    /\ pc' = "loop"
    /\ UNCHANGED <<calcVars, filepath, file, fileOpen, opens, test_cases, i, exc>>

\* one iteration of: for case in test_cases
ProcessCase ==
    /\ pc = "loop"
    /\ i < Len(test_cases)
    /\ LET case == test_cases[i + 1]
           h == Get(case, "hours", None)
           m == Get(case, "minutes", None)
           s == Get(case, "seconds", 0)
           expected == Get(case, "expected_angle", None)
           actual == calculate_clock_angle(h, m, s)
       IN  /\ args' = [hours |-> h, minutes |-> m, seconds |-> s]
           /\ ret' = actual
           /\ calls' = calls + 1
           /\ CASE actual.status = "ok" /\ expected # None ->
                     LET status == IF is_correct(actual.angle, expected)
                                     THEN "PASS" ELSE "FAIL"
                     IN  /\ passed' = IF is_correct(actual.angle, expected)
                                        THEN passed + 1 ELSE passed
                         /\ out' = Append(out, Row(h, m, s, expected, actual.angle, status))
                         /\ i' = i + 1
                         /\ UNCHANGED <<pc, exc>>
                [] actual.status = "ValueError" ->
                     /\ out' = Append(out, ErrorLine(h, m, s, actual))
                     /\ i' = i + 1
                     /\ UNCHANGED <<pc, exc, passed>>
                [] OTHER ->
                     \* TypeError from a comparison with None in the
                     \* calculator, or from actual - None; except ValueError
                     \* does not catch it
                     /\ pc' = "raised"
                     /\ exc' = "TypeError"
                     /\ UNCHANGED <<out, i, passed>>
    /\ UNCHANGED <<filepath, file, fileOpen, opens, test_cases>>

\* after the loop: print the separator and log the summary
Finish ==
    /\ pc = "loop"
    /\ i = Len(test_cases)
    /\ out' = out \o <<Separator, LogSummary(passed, Len(test_cases))>>
    /\ pc' = "returned"
    /\ UNCHANGED <<calcVars, filepath, file, fileOpen, opens, test_cases, i, passed, exc>>

Next ==
    \/ CheckExists
    \/ OpenFile
    \/ LoadJson
    \/ PrintHeader
    \/ ProcessCase
    \/ Finish

Spec == Init /\ [][Next]_vars

\* ------------------------------------------------------------------
\* Direct calls of calculate_clock_angle
\* ------------------------------------------------------------------
CalcInit ==
    /\ args \in [hours : HoursDom, minutes : MinutesDom, seconds : SecondsDom]
    /\ ret = NoRet
    /\ calls = 0
    /\ filepath = "clock_test_data.json"
    /\ file = [exists |-> FALSE, kind |-> "none", cases |-> <<>>]
    /\ pc = "idle"
    /\ fileOpen = FALSE
    /\ opens = 0
    /\ test_cases = <<>>
    /\ i = 0
    /\ passed = 0
    /\ out = <<>>
    /\ exc = "none"

CalcCall ==
    /\ pc = "idle"
    /\ calls = 0
    /\ ret' = calculate_clock_angle(args.hours, args.minutes, args.seconds)
    /\ calls' = 1
    /\ UNCHANGED <<args, filepath, file, pc, fileOpen, opens, test_cases, i, passed, out, exc>>

CalcNext == CalcCall

CalcSpec == CalcInit /\ [][CalcNext]_vars

\* ------------------------------------------------------------------
\* Properties of calculate_clock_angle (specification CalcSpec)
\* ------------------------------------------------------------------
Called == calls = 1 /\ pc = "idle"

InRange ==
    /\ args.hours \in 0..23
    /\ args.minutes \in 0..59
    /\ args.seconds \in 0..59

ArgsAre(h, m, s) == args = [hours |-> h, minutes |-> m, seconds |-> s]

\* C1: for every valid input (hours 0..23, minutes 0..59, seconds 0..59) the
\* returned value lies in the closed interval [0, 180] degrees.
C1_AngleInRange ==
    (Called /\ InRange) =>
        /\ ret.status = "ok"
        /\ 0 <= ret.angle
        /\ ret.angle <= 180 * Scale4

\* 6:00:00 returns exactly 180 degrees, the upper end of the interval.
C1_Witness == Called /\ ArgsAre(6, 0, 0) /\ ret.status = "ok" /\ ret.angle = 180 * Scale4

\* C2: the call fails with ValueError exactly when some field is outside its
\* range; the error names a field that is out of range together with that
\* field's value, and carries no angle; in-range inputs never fail.
C2_RejectsOutOfRange ==
    Called =>
        IF InRange
          THEN ret.status = "ok" /\ ret.angle # NoAngle
          ELSE /\ ret.status = "ValueError"
               /\ ret.angle = NoAngle
               /\ \/ ret.field = "Hours" /\ args.hours \notin 0..23
                                      /\ ret.value = args.hours
                  \/ ret.field = "Minutes" /\ args.minutes \notin 0..59
                                        /\ ret.value = args.minutes
                  \/ ret.field = "Seconds" /\ args.seconds \notin 0..59
                                        /\ ret.value = args.seconds

\* calculate_clock_angle(0, 0, 60) is rejected, naming Seconds and 60.
C2_Witness ==
    /\ Called
    /\ ArgsAre(0, 0, 60)
    /\ ret.status = "ValueError"
    /\ ret.field = "Seconds"
    /\ ret.value = 60

\* The claimed angle min(diff, 360 - diff), diff = |(30*(h mod 12) + 0.5*m +
\* (0.5/60)*s) - (6*m + 0.1*s)|, multiplied by 120 to stay in integers.
ClaimedAngle120(h, m, s) ==
    LET hourHand == (3600 * (h % 12)) + (60 * m) + s
        minuteHand == (720 * m) + (12 * s)
        d == IF hourHand >= minuteHand THEN hourHand - minuteHand
                                       ELSE minuteHand - hourHand
    IN  IF d <= 43200 - d THEN d ELSE 43200 - d

\* C6: for every valid input the returned value equals the claimed formula up
\* to the 4-decimal rounding (it differs from it by at most 0.00005 degree);
\* it is 0 at 0:00:00, 90 at 3:00:00, 180 at 6:00:00 and 90 at 9:00:00.
C6_MatchesFormula ==
    (Called /\ InRange) =>
        /\ ret.status = "ok"
        /\ Abs((120 * ret.angle)
               - (10000 * ClaimedAngle120(args.hours, args.minutes, args.seconds))) <= 60
        /\ ArgsAre(0, 0, 0) => ret.angle = 0
        /\ ArgsAre(3, 0, 0) => ret.angle = 900000
        /\ ArgsAre(6, 0, 0) => ret.angle = 1800000
        /\ ArgsAre(9, 0, 0) => ret.angle = 900000

\* 3:15:30: hour hand at 97.75, minute hand at 93.0, angle 4.75 degrees.
C6_Witness == Called /\ ArgsAre(3, 15, 30) /\ ret.status = "ok" /\ ret.angle = 47500

\* C7: for every h in 0..11 and valid minutes and seconds the call with h
\* returns what the call with h + 12 returns; 0:00:00 and 12:00:00 both give 0.
C7_TwelveHourFold ==
    (Called /\ InRange) =>
        /\ args.hours \in 0..11 =>
             ret = calculate_clock_angle(args.hours + 12, args.minutes, args.seconds)
        /\ args.hours \in 12..23 =>
             ret = calculate_clock_angle(args.hours - 12, args.minutes, args.seconds)
        /\ (ArgsAre(0, 0, 0) \/ ArgsAre(12, 0, 0)) => (ret.status = "ok" /\ ret.angle = 0)

\* 15:30:00 returns 75 degrees, as 3:30:00 does.
C7_Witness ==
    /\ Called
    /\ ArgsAre(15, 30, 0)
    /\ ret.status = "ok"
    /\ ret.angle = 750000
    /\ ret = calculate_clock_angle(3, 30, 0)

\* ------------------------------------------------------------------
\* Properties of run_tests_from_file (specification Spec)
\* ------------------------------------------------------------------
Ended == pc \in {"returned", "raised"}

Stdout == {k \in 1..Len(out) : out[k].chan = "stdout"}
CaseLineAt(k) == out[k].kind \in {"row", "error_line"}
CaseLineIdx == {k \in 1..Len(out) : CaseLineAt(k)}

\* C3: run_tests_from_file never raises to its caller, whatever the path and
\* the file content, records with missing hours, minutes or expected_angle
\* included: no exception leaves the function.
C3_NeverRaises == pc # "raised" /\ exc = "none"

\* C4: when the file does not exist the runner logs exactly one error naming
\* the path and returns: nothing is printed, the file is never opened, and
\* no later step of the function is reached.
C4_MissingFile ==
    ~file.exists =>
        /\ opens = 0
        /\ ~fileOpen
        /\ calls = 0
        /\ Stdout = {}
        /\ exc = "none"
        /\ pc \in {"check_exists", "returned"}
        /\ pc = "check_exists" => out = <<>>
        /\ pc = "returned" =>
             /\ Len(out) = 1
             /\ out[1].chan = "ERROR"
             /\ out[1].kind = "not_found"
             /\ out[1].path = filepath

\* The run on a missing file has returned with its one error message.
C4_Witness ==
    /\ ~file.exists
    /\ pc = "returned"
    /\ Len(out) = 1
    /\ out[1].chan = "ERROR"
    /\ out[1].path = filepath
    /\ opens = 0

\* C5: when the file exists and its content is not valid JSON the runner logs
\* one error naming the file and returns before any case is processed: the
\* calculator is never called, nothing is printed, and the file is closed
\* once the function has returned.
C5_MalformedFile ==
    (file.exists /\ file.kind = "malformed") =>
        /\ calls = 0
        /\ i = 0
        /\ Stdout = {}
        /\ exc = "none"
        /\ pc \in {"check_exists", "open", "load", "returned"}
        /\ pc # "returned" => out = <<>>
        /\ pc = "returned" =>
             /\ ~fileOpen
             /\ Len(out) = 1
             /\ out[1].chan = "ERROR"
             /\ out[1].kind = "json_error"
             /\ out[1].path = filepath

\* The run on a malformed file opened it, closed it and returned with the log.
C5_Witness ==
    /\ file.exists
    /\ file.kind = "malformed"
    /\ pc = "returned"
    /\ opens = 1
    /\ ~fileOpen
    /\ Len(out) = 1
    /\ out[1].kind = "json_error"

\* the record passes: the calculator succeeds and the angle is within 0.01
Passes(case) ==
    LET r == calculate_clock_angle(Get(case, "hours", None),
                                   Get(case, "minutes", None),
                                   Get(case, "seconds", 0))
    IN  /\ r.status = "ok"
        /\ case.expected_angle # Absent
        /\ r.angle - case.expected_angle < 100
        /\ case.expected_angle - r.angle < 100

PassCount(cases, n) == Cardinality({k \in 1..n : Passes(cases[k])})

\* C8: the summary reports passed/total with total the number of records in
\* the file and passed the number of records that pass; during the loop
\* passed counts the passing records among those consumed, so an error or a
\* FAIL leaves it unchanged, and 0 <= passed <= total at every point.
C8_Tally ==
    /\ 0 <= passed
    /\ passed <= Len(test_cases)
    /\ pc = "loop" => passed = PassCount(test_cases, i)
    /\ \A k \in 1..Len(out) :
         out[k].kind = "summary" =>
             /\ out[k].total = Len(file.cases)
             /\ out[k].passed = PassCount(file.cases, Len(file.cases))

\* A finished run over two records, one rejected by the calculator and one
\* passing, reports 1/2.
C8_Witness ==
    /\ pc = "returned"
    /\ Len(test_cases) = 2
    /\ \E k \in 1..Len(out) : out[k].kind = "error_line"
    /\ \E k \in 1..Len(out) : out[k].kind = "row" /\ out[k].status = "PASS"
    /\ out[Len(out)].kind = "summary"
    /\ out[Len(out)].passed = 1
    /\ out[Len(out)].total = 2

\* the k-th case line of the output
CaseLine(k) ==
    out[CHOOSE j \in CaseLineIdx : Cardinality({l \in CaseLineIdx : l < j}) = k - 1]

\* the line shows the inputs extracted from the record
LineShows(line, case) ==
    line.time = <<Get(case, "hours", None), Get(case, "minutes", None),
                  Get(case, "seconds", 0)>>

\* C9: once a run over n parsed records has ended, every record has been
\* processed exactly once in file order and has produced exactly one line (a
\* row, or an error line with the raw inputs and the error); records after
\* a failing one are processed too.
C9_EveryCaseOnce ==
    (Ended /\ file.kind = "array") =>
        /\ i = Len(file.cases)
        /\ calls = Len(file.cases)
        /\ Cardinality(CaseLineIdx) = Len(file.cases)
        /\ \A k \in 1..Len(file.cases) : LineShows(CaseLine(k), file.cases[k])

\* C10: once a run that got past parsing has ended, its output is the header
\* and a separator, then only case lines, then the closing separator and the
\* info-level summary, each exactly once; every such run ends with the
\* summary.
C10_OutputOrder ==
    (Ended /\ file.kind = "array") =>
        /\ Len(out) >= 4
        /\ out[1] = Header
        /\ out[2] = Separator
        /\ \A k \in 3..(Len(out) - 2) : CaseLineAt(k)
        /\ out[Len(out) - 1] = Separator
        /\ out[Len(out)].chan = "INFO"
        /\ out[Len(out)].kind = "summary"

====
